---- MODULE Spec2Model ----
(***************************************************************************)
(* Verification model of the dense ODST block                              *)
(* (pytorch_tabular/models/node/odst.py): the layer's parameters, its      *)
(* constructor, forward and the data-aware initializer initialize.         *)
(*                                                                         *)
(* Numbers are exact rationals <<n, d>> in lowest terms with d > 0; the    *)
(* not-a-number sentinel is <<0, 0>> and is absorbing for every arithmetic *)
(* operation, as in IEEE arithmetic.  A natural logarithm is kept symbolic *)
(* as the record [ln |-> x]; exp(-[ln |-> x]) is 1 / x.                    *)
(* Tensors passed in and out are records [shape, data] with data in        *)
(* row-major order over 0 .. numel-1, so that view() is a change of shape  *)
(* over the same data.                                                     *)
(***************************************************************************)
EXTENDS Integers, Sequences, FiniteSets, TLC

\* ------------------------------------------------------------------ bounds
MaxTrees == 2
MaxDepth == 2
MaxTreeDim == 2
MaxCells == 4
MaxBatch == 2
NumFeatures == 2

\* initialize warns below this many rows
WarnRows == 1000

\* --------------------------------------------------------------- rationals
NaN == <<0, 0>>

IsNaN(a) == a[2] = 0

Abs(i) == IF i < 0 THEN -i ELSE i

RECURSIVE GCD(_, _)
GCD(a, b) == IF b = 0 THEN a ELSE GCD(b, a % b)

Norm(n, d) ==
    IF d = 0 THEN NaN
    ELSE LET g == GCD(Abs(n), Abs(d))
             s == IF d < 0 THEN -1 ELSE 1
         IN  <<s * (n \div g), s * (d \div g)>>

Rat(n, d) == Norm(n, d)
Int2Rat(i) == <<i, 1>>
Zero == <<0, 1>>
One == <<1, 1>>

Add(a, b) == IF IsNaN(a) \/ IsNaN(b) THEN NaN
             ELSE LET g == GCD(a[2], b[2])
                  IN  Norm(a[1] * (b[2] \div g) + b[1] * (a[2] \div g),
                           a[2] * (b[2] \div g))
Neg(a) == IF IsNaN(a) THEN NaN ELSE <<-a[1], a[2]>>
Sub(a, b) == Add(a, Neg(b))
Mul(a, b) == IF IsNaN(a) \/ IsNaN(b) THEN NaN
             ELSE Norm(a[1] * b[1], a[2] * b[2])
\* division by zero does not arise in the model: every divisor is checked > 0
Div(a, b) == IF IsNaN(a) \/ IsNaN(b) \/ b[1] = 0 THEN NaN
             ELSE Norm(a[1] * b[2], a[2] * b[1])
\* comparisons with NaN are false
Less(a, b) == ~IsNaN(a) /\ ~IsNaN(b) /\ a[1] * b[2] < b[1] * a[2]
Leq(a, b) == ~IsNaN(a) /\ ~IsNaN(b) /\ a[1] * b[2] <= b[1] * a[2]
AbsR(a) == IF IsNaN(a) THEN NaN ELSE <<Abs(a[1]), a[2]>>
MinR(a, b) == IF Less(b, a) THEN b ELSE a
MaxR(a, b) == IF Less(a, b) THEN b ELSE a
Floor(a) == a[1] \div a[2]

\* sum of f[i] over i \in lo..hi
RECURSIVE SumR(_, _, _)
SumR(f, lo, hi) == IF lo > hi THEN Zero ELSE Add(f[lo], SumR(f, lo + 1, hi))

\* product of f[i] over i \in lo..hi (torch.prod)
RECURSIVE ProdR(_, _, _)
ProdR(f, lo, hi) == IF lo > hi THEN One ELSE Mul(f[lo], ProdR(f, lo + 1, hi))

RECURSIVE Pow2(_)
Pow2(k) == IF k = 0 THEN 1 ELSE 2 * Pow2(k - 1)

\* product of the entries of a shape
RECURSIVE Numel(_)
Numel(shape) == IF shape = <<>> THEN 1 ELSE Head(shape) * Numel(Tail(shape))

\* torch.log and torch.exp(-x), symbolic
Log(x) == [ln |-> x]
ExpNeg(l) == IF IsNaN(l.ln) THEN NaN ELSE Div(One, l.ln)

\* forces the evaluation of a function value, which is otherwise re-evaluated
\* at every application
Eval(f) == IF f = f THEN f ELSE f

\* ------------------------------------------------------------------- state
VARIABLES
    in_features, depth, num_trees, tree_dim,      \* hyperparameters
    flatten_output, threshold_init_cutoff,
    response,                   \* [num_trees][tree_dim][2^depth]
    feature_selection_logits,   \* [in_features][num_trees][depth]
    feature_thresholds,         \* [num_trees][depth], NaN until initialized
    log_temperatures,           \* [num_trees][depth], log of NaN until initialized
    bin_codes_1hot,             \* [depth][2^depth][2]
    op,                         \* the last call: "none", "forward", "initialize"
    input,                      \* its argument
    output,                     \* what it returned or raised
    warned,                     \* whether it emitted a warning
    was_set                     \* whether thresholds were assigned before it

hyper == <<in_features, depth, num_trees, tree_dim, flatten_output,
           threshold_init_cutoff>>
params == <<response, feature_selection_logits, feature_thresholds,
            log_temperatures, bin_codes_1hot>>
vars == <<hyper, params, op, input, output, warned, was_set>>

\* ------------------------------------------------- utils (not in the tree)
\* sparsemoid: the default bin_function
sparsemoid(x) ==
    LET y == Add(Mul(Rat(1, 2), x), Rat(1, 2))
    IN  IF IsNaN(y) THEN NaN
        ELSE IF Less(y, Zero) THEN Zero
        ELSE IF Less(One, y) THEN One
        ELSE y

\* for each value of a[0..n-1], how many of the entries are smaller:
\* the first position the value takes when a is sorted
Ranks(a, n) ==
    LET vals == {a[i] : i \in 0..(n - 1)}
    IN  [v \in vals |->
            LET smaller == {w \in vals : Less(w, v)}
            IN  Cardinality({i \in 0..(n - 1) : a[i] \in smaller})]

\* the entry at position k (from 0) of a sorted, given the ranks of a
SortedAt(ranks, k) ==
    CHOOSE v \in DOMAIN ranks :
        /\ ranks[v] <= k
        /\ \A w \in DOMAIN ranks : ranks[w] <= k => ranks[w] <= ranks[v]

\* sparsemax: the default choice_function, the Euclidean projection of the
\* vector z[0..n-1] onto the probability simplex
sparsemax(z, n) ==
    LET ranks == Eval(Ranks(z, n))
        sorted == [k \in 1..n |-> SortedAt(ranks, n - k)]     \* descending
        cumsum == [k \in 1..n |-> SumR(sorted, 1, k)]
        support == {k \in 1..n :
                      Less(cumsum[k], Add(One, Mul(Int2Rat(k), sorted[k])))}
        kz == CHOOSE k \in support : \A j \in support : j <= k
        tau == Div(Sub(cumsum[kz], One), Int2Rat(kz))
    IN  [i \in 0..(n - 1) |-> MaxR(Sub(z[i], tau), Zero)]

\* ------------------------------------------------------------ construction
\* bin_codes with the offsets taken from the highest level down
bin_codes_reversed(dep) ==
    [d \in 0..(dep - 1) |->
        [c \in 0..(Pow2(dep) - 1) |->
            Int2Rat((c \div Pow2(dep - 1 - d)) % 2)]]

\* indices.view(1, -1) // offsets.view(-1, 1) % 2
bin_codes(dep) ==
    [d \in 0..(dep - 1) |->
        [c \in 0..(Pow2(dep) - 1) |-> Int2Rat((c \div Pow2(d)) % 2)]]

\* bin_codes_1hot stacked as [1.0 - bin_codes, bin_codes]
make_bin_codes_1hot_swapped(dep) ==
    LET codes == bin_codes(dep)
    IN  [d \in 0..(dep - 1) |->
            [c \in 0..(Pow2(dep) - 1) |->
                [s \in 0..1 |-> IF s = 0 THEN Sub(One, codes[d][c])
                                ELSE codes[d][c]]]]

\* torch.stack([bin_codes, 1.0 - bin_codes], dim=-1)
make_bin_codes_1hot(dep) ==
    LET codes == bin_codes(dep)
    IN  [d \in 0..(dep - 1) |->
            [c \in 0..(Pow2(dep) - 1) |->
                [s \in 0..1 |-> IF s = 0 THEN codes[d][c]
                                ELSE Sub(One, codes[d][c])]]]

\* what initialize_response_ leaves in response: distinct values per leaf
ResponseInit(nt, td, dep) ==
    [n \in 0..(nt - 1) |-> [c \in 0..(td - 1) |->
        [l \in 0..(Pow2(dep) - 1) |-> Int2Rat(l + Pow2(dep) * c - n)]]]

\* what initialize_selection_logits_ leaves in feature_selection_logits
LogitsInit(nf, nt, dep) ==
    [i \in 0..(nf - 1) |-> [n \in 0..(nt - 1) |->
        [d \in 0..(dep - 1) |-> Rat((i + n + d) % 3, 2)]]]

Cutoffs == {Rat(1, 2), One, Int2Rat(2)}

Init ==
    /\ in_features = NumFeatures
    /\ num_trees \in 1..MaxTrees
    /\ depth \in 1..MaxDepth
    /\ tree_dim \in 1..MaxTreeDim
    /\ num_trees * tree_dim * depth <= MaxCells
    /\ flatten_output \in BOOLEAN
    /\ threshold_init_cutoff \in Cutoffs
    /\ response = ResponseInit(num_trees, tree_dim, depth)
    /\ feature_selection_logits = LogitsInit(in_features, num_trees, depth)
    /\ feature_thresholds =
           [n \in 0..(num_trees - 1) |-> [d \in 0..(depth - 1) |-> NaN]]
    /\ log_temperatures =
           [n \in 0..(num_trees - 1) |-> [d \in 0..(depth - 1) |-> Log(NaN)]]
    /\ bin_codes_1hot = make_bin_codes_1hot(depth)
    /\ op = "none"
    /\ input = [shape |-> <<>>, data |-> <<>>]
    /\ output = [kind |-> "none", shape |-> <<>>, data |-> <<>>]
    /\ warned = FALSE
    /\ was_set = FALSE

\* ----------------------------------------------------------------- tensors
Tensor(shape, data) == [kind |-> "tensor", shape |-> shape, data |-> data]
Raise(err) == [kind |-> err, shape |-> <<>>, data |-> <<>>]

Lead(shape) == SubSeq(shape, 1, Len(shape) - 1)
Last(shape) == shape[Len(shape)]

\* input.view(-1, input.shape[-1])
view2d(inp) ==
    [shape |-> <<Numel(Lead(inp.shape)), Last(inp.shape)>>, data |-> inp.data]

\* ----------------------------------------------------------------- forward
\* choice_function(feature_selection_logits, dim=0), as [n][d][i]
feature_selectors ==
    [n \in 0..(num_trees - 1) |-> [d \in 0..(depth - 1) |->
        sparsemax([i \in 0..(in_features - 1) |->
                      feature_selection_logits[i][n][d]], in_features)]]

\* torch.einsum("bi,ind->bnd", input, feature_selectors)
feature_values(inp) ==
    LET sel == Eval(feature_selectors)
    IN  [b \in 0..(inp.shape[1] - 1) |-> [n \in 0..(num_trees - 1) |->
            [d \in 0..(depth - 1) |->
                SumR([i \in 0..(in_features - 1) |->
                         Mul(inp.data[b * in_features + i], sel[n][d][i])],
                     0, in_features - 1)]]]

\* bins with the threshold logits stacked as [x, x]
bins_unsigned(inp) ==
    LET fv == Eval(feature_values(inp))
    IN  [b \in 0..(inp.shape[1] - 1) |-> [n \in 0..(num_trees - 1) |->
            [d \in 0..(depth - 1) |->
                LET x == Mul(Sub(fv[b][n][d], feature_thresholds[n][d]),
                             ExpNeg(log_temperatures[n][d]))
                IN  [s \in 0..1 |-> sparsemoid(x)]]]]

\* (feature_values - feature_thresholds) * exp(-log_temperatures),
\* stacked as [-x, x] and passed through bin_function
bins(inp) ==
    LET fv == Eval(feature_values(inp))
    IN  [b \in 0..(inp.shape[1] - 1) |-> [n \in 0..(num_trees - 1) |->
            [d \in 0..(depth - 1) |->
                LET x == Mul(Sub(fv[b][n][d], feature_thresholds[n][d]),
                             ExpNeg(log_temperatures[n][d]))
                IN  [s \in 0..1 |-> sparsemoid(IF s = 0 THEN Neg(x) ELSE x)]]]]

\* torch.einsum("btds,dcs->btdc", bins, bin_codes_1hot)
bin_matches(inp) ==
    LET bn == Eval(bins(inp))
    IN  [b \in 0..(inp.shape[1] - 1) |-> [n \in 0..(num_trees - 1) |->
            [d \in 0..(depth - 1) |-> [c \in 0..(Pow2(depth) - 1) |->
                SumR([s \in 0..1 |->
                         Mul(bn[b][n][d][s], bin_codes_1hot[d][c][s])], 0, 1)]]]]

\* torch.prod(bin_matches, dim=-2)
response_weights(inp) ==
    LET bm == Eval(bin_matches(inp))
    IN  [b \in 0..(inp.shape[1] - 1) |-> [n \in 0..(num_trees - 1) |->
            [c \in 0..(Pow2(depth) - 1) |->
                ProdR([d \in 0..(depth - 1) |-> bm[b][n][d][c]],
                      0, depth - 1)]]]

\* torch.einsum("bnd,ncd->bnc", response_weights, response)
tree_responses(inp) ==
    LET rw == Eval(response_weights(inp))
    IN  [b \in 0..(inp.shape[1] - 1) |-> [n \in 0..(num_trees - 1) |->
            [c \in 0..(tree_dim - 1) |->
                SumR([l \in 0..(Pow2(depth) - 1) |->
                         Mul(rw[b][n][l], response[n][c][l])],
                     0, Pow2(depth) - 1)]]]

\* the 2-D branch: response.flatten(1, 2) if flatten_output else response
forward2d(inp) ==
    LET r == Eval(tree_responses(inp))
        B == inp.shape[1]
        data == [k \in 0..(B * num_trees * tree_dim - 1) |->
                    r[k \div (num_trees * tree_dim)]
                     [(k \div tree_dim) % num_trees][k % tree_dim]]
    IN  Tensor(IF flatten_output THEN <<B, num_trees * tree_dim>>
               ELSE <<B, num_trees, tree_dim>>, data)

\* The memory layout of an einsum result depends on the torch build: dense
\* in the order of its shape, or the permuted result of a batched product.
EinsumLayouts == {"dense", "permuted"}

\* inner.view(*lead, -1) of the 2-D branch's result.  flatten(1, 2) gives a
\* tensor whose two dimensions can always be split; the unflattened [B, T, C]
\* result can be viewed as [*lead, T * C] only when T and C merge in memory.
view_restore(inner, lead, layout) ==
    LET B == inner.shape[1]
        merges == \/ flatten_output
                  \/ layout = "dense"
                  \/ B = 1 \/ num_trees = 1 \/ tree_dim = 1
    IN  IF inner.kind # "tensor" THEN inner
        ELSE IF ~merges THEN Raise("RuntimeError")
        ELSE Tensor(lead \o <<Numel(inner.shape) \div Numel(lead)>>, inner.data)

\* forward asserting len(input.shape) > 2
RECURSIVE forward_strict(_)
forward_strict(inp) ==
    IF Len(inp.shape) <= 2 THEN {Raise("AssertionError")}
    ELSE {view_restore(inner, Lead(inp.shape), layout) :
             inner \in forward_strict(view2d(inp)), layout \in EinsumLayouts}

\* ODST.forward: the set of results the call can have
RECURSIVE forward(_)
forward(inp) ==
    IF Len(inp.shape) < 2 THEN {Raise("AssertionError")}
    ELSE IF Len(inp.shape) > 2
    THEN {view_restore(inner, Lead(inp.shape), layout) :
             inner \in forward(view2d(inp)), layout \in EinsumLayouts}
    ELSE {forward2d(inp)}

\* -------------------------------------------------------------- initialize
\* np.percentile(a, q) of the n values a[0..n-1], linear interpolation
np_percentile(a, n, q) ==
    LET arr == Eval(a)
        idx == Mul(Div(q, Int2Rat(100)), Int2Rat(n - 1))
        lo == Floor(idx)
        hi == IF lo + 1 > n - 1 THEN n - 1 ELSE lo + 1
        frac == Sub(idx, Int2Rat(lo))
        ranks == Eval(Ranks(arr, n))
        below == SortedAt(ranks, lo)
        above == SortedAt(ranks, hi)
    IN  Add(below, Mul(frac, Sub(above, below)))

\* list(map(np.percentile, feature_values.flatten(1, 2).t(),
\*          percentiles_q.flatten())) viewed as [num_trees, depth]
init_thresholds(fv, B, percentiles_q) ==
    LET
        rows == [k \in 0..(num_trees * depth - 1) |->
                    [b \in 0..(B - 1) |-> fv[b][k \div depth][k % depth]]]
        qs == [k \in 0..(num_trees * depth - 1) |->
                    percentiles_q[k \div depth][k % depth]]
        flat == [k \in 0..(num_trees * depth - 1) |->
                    np_percentile(rows[k], B, qs[k])]
    IN  [n \in 0..(num_trees - 1) |-> [d \in 0..(depth - 1) |->
            flat[n * depth + d]]]

\* np.percentile(abs(feature_values - feature_thresholds),
\*               q=100 * min(1.0, cutoff), axis=0) / max(1.0, cutoff)
init_temperatures(fv, B, thresholds) ==
    LET q == Mul(Int2Rat(100), MinR(One, threshold_init_cutoff))
    IN  [n \in 0..(num_trees - 1) |-> [d \in 0..(depth - 1) |->
            Div(np_percentile([b \in 0..(B - 1) |->
                                  AbsR(Sub(fv[b][n][d], thresholds[n][d]))],
                              B, q),
                MaxR(One, threshold_init_cutoff))]]

\* log-temperatures without the stability constant
init_log_temperatures_no_eps(temperatures, eps) ==
    [n \in 0..(num_trees - 1) |-> [d \in 0..(depth - 1) |->
        Log(temperatures[n][d])]]

\* torch.log(torch.as_tensor(temperatures) + eps)
init_log_temperatures(temperatures, eps) ==
    [n \in 0..(num_trees - 1) |-> [d \in 0..(depth - 1) |->
        Log(Add(temperatures[n][d], eps))]]

\* ------------------------------------------------------------------ inputs
\* the values of an argument tensor, by row-major position: rows inside the
\* range of a sample and rows far outside it
InputValue(k) ==
    LET cycle == <<0, 1, 8, -8, -8, 8, 2, 1>>
    IN  Int2Rat(cycle[(k % 8) + 1])

TensorOf(sh) == [shape |-> sh, data |-> [k \in 0..(Numel(sh) - 1) |-> InputValue(k)]]

InputShapes ==
    {<<>>, <<in_features>>}
    \cup {<<b, in_features>> : b \in 1..MaxBatch}
    \cup {<<a, b, in_features>> : a, b \in 1..MaxBatch}

Inputs ==
    {TensorOf(sh) : sh \in {x \in InputShapes : Numel(x) <= MaxBatch * in_features}}

\* the stability constant passed to initialize
Epsilons == {Rat(1, 8)}

\* draws of 100 * np.random.beta(beta, beta, size=[num_trees, depth])
QDraws ==
    {[n \in 0..(num_trees - 1) |-> [d \in 0..(depth - 1) |->
         Int2Rat(50 * ((n + d + s) % 3))]] : s \in 0..1}

\* ----------------------------------------------------------------- actions
IsNaNLog(l) == IsNaN(l.ln) \/ Less(l.ln, Zero)

\* no entry of feature_thresholds or log_temperatures is the sentinel
Assigned ==
    \A n \in 0..(num_trees - 1), d \in 0..(depth - 1) :
        ~IsNaN(feature_thresholds[n][d]) /\ ~IsNaNLog(log_temperatures[n][d])

\* every entry of feature_thresholds and log_temperatures is the sentinel
Sentinel ==
    \A n \in 0..(num_trees - 1), d \in 0..(depth - 1) :
        IsNaN(feature_thresholds[n][d]) /\ IsNaN(log_temperatures[n][d].ln)

Forward ==
    \E inp \in Inputs : \E out \in forward(inp) :
        /\ op' = "forward"
        /\ input' = inp
        /\ output' = out
        /\ warned' = FALSE
        /\ was_set' = Assigned
        /\ UNCHANGED <<hyper, params>>

\* assert len(input.shape) == 2
InitializeRejects ==
    \E inp \in Inputs :
        /\ Len(inp.shape) # 2
        /\ op' = "initialize"
        /\ input' = inp
        /\ output' = Raise("AssertionError")
        /\ warned' = FALSE
        /\ was_set' = Assigned
        /\ UNCHANGED <<hyper, params>>

\* initialize that assigns only while the parameters are at the sentinel
initialize_once(inp, fv, eps, percentiles_q) ==
    /\ warned' = (inp.shape[1] < WarnRows)
    /\ IF Assigned
       THEN UNCHANGED <<feature_thresholds, log_temperatures>>
       ELSE LET thresholds ==
                    Eval(init_thresholds(fv, inp.shape[1], percentiles_q))
                temperatures == init_temperatures(fv, inp.shape[1], thresholds)
            IN  /\ feature_thresholds' = thresholds
                /\ log_temperatures' = init_log_temperatures(temperatures, eps)
    /\ op' = "initialize"
    /\ input' = inp
    /\ output' = [kind |-> "None", shape |-> <<>>, data |-> <<>>]
    /\ was_set' = Assigned
    /\ UNCHANGED <<hyper, response, feature_selection_logits, bin_codes_1hot>>

\* initialize that warns up to and including WarnRows rows
initialize_warn_leq(inp, fv, eps, percentiles_q) ==
    /\ warned' = (inp.shape[1] <= WarnRows)
    /\ LET thresholds == Eval(init_thresholds(fv, inp.shape[1], percentiles_q))
           temperatures == init_temperatures(fv, inp.shape[1], thresholds)
       IN  /\ feature_thresholds' = thresholds
           /\ log_temperatures' = init_log_temperatures(temperatures, eps)
    /\ op' = "initialize"
    /\ input' = inp
    /\ output' = [kind |-> "None", shape |-> <<>>, data |-> <<>>]
    /\ was_set' = Assigned
    /\ UNCHANGED <<hyper, response, feature_selection_logits, bin_codes_1hot>>

\* initialize that also resets the response tensor
initialize_resets_response(inp, fv, eps, percentiles_q) ==
    /\ warned' = (inp.shape[1] < WarnRows)
    /\ LET thresholds == Eval(init_thresholds(fv, inp.shape[1], percentiles_q))
           temperatures == init_temperatures(fv, inp.shape[1], thresholds)
       IN  /\ feature_thresholds' = thresholds
           /\ log_temperatures' = init_log_temperatures(temperatures, eps)
    /\ op' = "initialize"
    /\ input' = inp
    /\ output' = [kind |-> "None", shape |-> <<>>, data |-> <<>>]
    /\ was_set' = Assigned
    /\ response' = [n \in DOMAIN response |-> [c \in DOMAIN response[n] |->
                       [l \in DOMAIN response[n][c] |-> Zero]]]
    /\ UNCHANGED <<hyper, feature_selection_logits, bin_codes_1hot>>

\* the assignments of initialize, given the feature values of its sample
initialize(inp, fv, eps, percentiles_q) ==
    /\ warned' = (inp.shape[1] < WarnRows)
    /\ LET thresholds == Eval(init_thresholds(fv, inp.shape[1], percentiles_q))
           temperatures == init_temperatures(fv, inp.shape[1], thresholds)
       IN  /\ feature_thresholds' = thresholds
           /\ log_temperatures' = init_log_temperatures(temperatures, eps)
    /\ op' = "initialize"
    /\ input' = inp
    /\ output' = [kind |-> "None", shape |-> <<>>, data |-> <<>>]
    /\ was_set' = Assigned
    /\ UNCHANGED <<hyper, response, feature_selection_logits, bin_codes_1hot>>

Initialize ==
    \E inp \in Inputs :
        /\ Len(inp.shape) = 2
        /\ LET fv == Eval(feature_values(inp))
           IN  \E eps \in Epsilons, q \in QDraws : initialize(inp, fv, eps, q)

Next == Forward \/ InitializeRejects \/ Initialize

Spec == Init /\ [][Next]_vars

\* ------------------------------------------- samples around the warning
\* sample batches of WarnRows - 1 and WarnRows rows
LargeSamples == {TensorOf(<<rows, in_features>>) : rows \in {WarnRows - 1, WarnRows}}

InitializeLarge ==
    \E inp \in LargeSamples :
        /\ Len(inp.shape) = 2
        /\ LET fv == Eval(feature_values(inp))
           IN  \E eps \in Epsilons, q \in QDraws : initialize(inp, fv, eps, q)

NextLarge == InitializeLarge

\* initialize reads neither tree_dim nor flatten_output
InitLarge == Init /\ tree_dim = 1 /\ flatten_output

SpecLarge == InitLarge /\ [][NextLarge]_vars

\* ================================================================== claims
Rows == Numel(Lead(input.shape))
Called2D == op = "forward" /\ Len(input.shape) >= 2

\* C1: every forward call on an input of shape [D1..D(k-1), in_features],
\* k >= 2, returns a tensor of shape [D1..D(k-1), num_trees * tree_dim] when
\* flatten_output is set and [D1..D(k-1), num_trees, tree_dim] when it is not.
C1_ShapeInvariance ==
    Called2D =>
        /\ output.kind = "tensor"
        /\ output.shape = Lead(input.shape) \o
               (IF flatten_output THEN <<num_trees * tree_dim>>
                ELSE <<num_trees, tree_dim>>)

\* C9: bin_codes_1hot has shape [depth, 2^depth, 2]; the pair at level d of
\* leaf c is one-hot, entry 0 set exactly when bit d of c is 1 and entry 1
\* exactly when it is 0; distinct leaves have distinct code sequences.
C9_RoutingCodeTable ==
    LET leaves == 0..(Pow2(depth) - 1)
        levels == 0..(depth - 1)
        bit(d, c) == (c \div Pow2(d)) % 2
    IN  /\ DOMAIN bin_codes_1hot = levels
        /\ \A d \in levels :
            /\ DOMAIN bin_codes_1hot[d] = leaves
            /\ \A c \in leaves :
                /\ DOMAIN bin_codes_1hot[d][c] = 0..1
                /\ bin_codes_1hot[d][c][0] \in {Zero, One}
                /\ bin_codes_1hot[d][c][1] \in {Zero, One}
                /\ bin_codes_1hot[d][c][0] # bin_codes_1hot[d][c][1]
                /\ (bin_codes_1hot[d][c][0] = One) <=> (bit(d, c) = 1)
                /\ (bin_codes_1hot[d][c][1] = One) <=> (bit(d, c) = 0)
        /\ \A c1, c2 \in leaves :
            c1 # c2 => \E d \in levels :
                           bin_codes_1hot[d][c1] # bin_codes_1hot[d][c2]

\* a layer of full depth whose table has the pair <<1, 0>> at level 1 of leaf 2
C9_Witness ==
    /\ depth = MaxDepth
    /\ depth >= 2
    /\ bin_codes_1hot[1][2] = [s \in 0..1 |-> IF s = 0 THEN One ELSE Zero]
    /\ bin_codes_1hot[0][2] = [s \in 0..1 |-> IF s = 0 THEN Zero ELSE One]

\* C6: a forward call on an input of fewer than 2 dimensions raises the
\* assertion error, returns nothing and leaves every parameter as it was; on
\* an input of 2 or more dimensions the assertion does not fail.
C6_ForwardPrecondition ==
    [][op' = "forward" =>
        /\ Len(input'.shape) < 2 =>
              /\ output' = Raise("AssertionError")
              /\ UNCHANGED <<hyper, params>>
        /\ Len(input'.shape) >= 2 => output'.kind # "AssertionError"]_vars

\* forward has just rejected a 1-D input
C6_Witness ==
    /\ op = "forward"
    /\ Len(input.shape) = 1
    /\ output.kind = "AssertionError"

\* the shapes the constructor gives the parameters
ShapesAsConstructed ==
    /\ DOMAIN response = 0..(num_trees - 1)
    /\ \A n \in DOMAIN response :
        /\ DOMAIN response[n] = 0..(tree_dim - 1)
        /\ \A c \in DOMAIN response[n] :
               DOMAIN response[n][c] = 0..(Pow2(depth) - 1)
    /\ DOMAIN feature_selection_logits = 0..(in_features - 1)
    /\ \A i \in DOMAIN feature_selection_logits :
        /\ DOMAIN feature_selection_logits[i] = 0..(num_trees - 1)
        /\ \A n \in DOMAIN feature_selection_logits[i] :
               DOMAIN feature_selection_logits[i][n] = 0..(depth - 1)
    /\ DOMAIN feature_thresholds = 0..(num_trees - 1)
    /\ DOMAIN log_temperatures = 0..(num_trees - 1)
    /\ \A n \in 0..(num_trees - 1) :
        /\ DOMAIN feature_thresholds[n] = 0..(depth - 1)
        /\ DOMAIN log_temperatures[n] = 0..(depth - 1)

\* C10: forward changes no parameter and no hyperparameter; initialize
\* changes only feature_thresholds and log_temperatures; so the routing code
\* table and every parameter shape stay as constructed.
C10_Frame ==
    /\ [][/\ op' = "forward" => UNCHANGED <<hyper, params>>
          /\ op' = "initialize" =>
                UNCHANGED <<hyper, response, feature_selection_logits,
                            bin_codes_1hot>>]_vars
    /\ [](ShapesAsConstructed /\ bin_codes_1hot = make_bin_codes_1hot(depth))

\* forward has returned on a layer that initialize had assigned before
C10_Witness ==
    /\ op = "forward"
    /\ output.kind = "tensor"
    /\ was_set
    /\ Assigned

\* C2: on an assigned layer, the leaf weights forward computes for a row and a
\* tree lie in [0, 1] and sum to 1 over the 2^depth leaves.
C2_LeafWeightNormalization ==
    (Called2D /\ Assigned) =>
        LET rw == Eval(response_weights(view2d(input)))
        IN  \A b \in 0..(Rows - 1), n \in 0..(num_trees - 1) :
                /\ \A c \in 0..(Pow2(depth) - 1) :
                       Leq(Zero, rw[b][n][c]) /\ Leq(rw[b][n][c], One)
                /\ SumR(rw[b][n], 0, Pow2(depth) - 1) = One

\* forward on an assigned layer of depth 2 gave some leaf a weight strictly
\* between 0 and 1
C2_Witness ==
    /\ Called2D /\ Assigned /\ depth >= 2
    /\ LET rw == Eval(response_weights(view2d(input)))
       IN  \E b \in 0..(Rows - 1), n \in 0..(num_trees - 1),
              c \in 0..(Pow2(depth) - 1) :
               Less(Zero, rw[b][n][c]) /\ Less(rw[b][n][c], One)

\* C3: after initialize returns on a 2-D sample, no entry of
\* feature_thresholds or log_temperatures is the sentinel, both have shape
\* [num_trees, depth], and on a one-row sample every threshold is the row's
\* feature value and every log-temperature is log(0 + eps).
C3_InitializeAssignsAll ==
    (op = "initialize" /\ output.kind = "None") =>
        /\ Assigned
        /\ DOMAIN feature_thresholds = 0..(num_trees - 1)
        /\ DOMAIN log_temperatures = 0..(num_trees - 1)
        /\ \A n \in 0..(num_trees - 1) :
            /\ DOMAIN feature_thresholds[n] = 0..(depth - 1)
            /\ DOMAIN log_temperatures[n] = 0..(depth - 1)
        /\ input.shape[1] = 1 =>
            \A n \in 0..(num_trees - 1), d \in 0..(depth - 1) :
                /\ feature_thresholds[n][d] = feature_values(input)[0][n][d]
                /\ log_temperatures[n][d] \in {Log(eps) : eps \in Epsilons}

\* initialize has returned on a sample of one row
C3_Witness ==
    /\ op = "initialize"
    /\ output.kind = "None"
    /\ input.shape = <<1, in_features>>
    /\ ~was_set

\* the values initialize assigns from the sample inp under some draw
AssignedFrom(inp) ==
    LET fv == Eval(feature_values(inp))
    IN  \E q \in QDraws, eps \in Epsilons :
            /\ feature_thresholds = init_thresholds(fv, inp.shape[1], q)
            /\ log_temperatures =
                   init_log_temperatures(
                       init_temperatures(fv, inp.shape[1], feature_thresholds),
                       eps)

\* C4 as stated: once the thresholds and log-temperatures are assigned, no
\* later initialize call assigns them again.
C4_PopulatedOnce ==
    [][(Assigned /\ op' = "initialize") =>
           UNCHANGED <<feature_thresholds, log_temperatures>>]_vars

\* C4 as amended: every initialize call that returns, the first and each
\* later one, leaves the thresholds and log-temperatures it computes from its
\* own sample.
C4_EveryInitializeAssigns ==
    (op = "initialize" /\ output.kind = "None") => AssignedFrom(input)

\* initialize has returned on a layer that was already assigned
C4_Witness ==
    /\ op = "initialize"
    /\ output.kind = "None"
    /\ was_set
    /\ input.shape[1] > 1

\* C5: forward on a layer still at the sentinel raises nothing and returns a
\* tensor whose every element is NaN.
C5_SilentNaN ==
    (Called2D /\ Sentinel) =>
        /\ output.kind = "tensor"
        /\ \A k \in DOMAIN output.data : IsNaN(output.data[k])

\* C7: initialize warns exactly when its sample has fewer than WarnRows rows,
\* and assigns every threshold and log-temperature from the sample either way.
C7_WarningAdvisory ==
    (op = "initialize" /\ Len(input.shape) = 2) =>
        /\ warned <=> (input.shape[1] < 1000)
        /\ output.kind = "None"
        /\ Assigned
        /\ AssignedFrom(input)

\* initialize has warned on 999 rows and assigned the parameters
C7_Witness ==
    /\ op = "initialize"
    /\ input.shape[1] = 999
    /\ warned
    /\ Assigned

\* the scaled distance of row b at level d of tree n:
\* (feature_value - threshold) * exp(-log_temperature)
ScaledDistance(fv, b, n, d) ==
    Mul(Sub(fv[b][n][d], feature_thresholds[n][d]),
        ExpNeg(log_temperatures[n][d]))

\* row b is saturated at every level of tree n
Saturated(fv, b, n) ==
    \A d \in 0..(depth - 1) : Leq(One, AbsR(ScaledDistance(fv, b, n, d)))

\* the leaf whose bit d is 1 exactly when the feature value at level d is
\* below the threshold
RECURSIVE HardLeaf(_, _, _, _)
HardLeaf(fv, b, n, d) ==
    IF d = depth THEN 0
    ELSE (IF Less(fv[b][n][d], feature_thresholds[n][d]) THEN Pow2(d) ELSE 0)
         + HardLeaf(fv, b, n, d + 1)

\* C8: on an assigned layer, a row saturated at every level of a tree gives
\* weight 1 to the leaf whose bit d is 1 exactly when the feature value at
\* level d is below the threshold and weight 0 to every other leaf, and the
\* tree's output is that leaf's response.
C8_HardRouting ==
    (Called2D /\ Assigned) =>
        LET inp == view2d(input)
            fv == Eval(feature_values(inp))
            rw == Eval(response_weights(inp))
            out == Eval(tree_responses(inp))
        IN  \A b \in 0..(Rows - 1), n \in 0..(num_trees - 1) :
                Saturated(fv, b, n) =>
                    LET leaf == HardLeaf(fv, b, n, 0)
                    IN  /\ \A c \in 0..(Pow2(depth) - 1) :
                               rw[b][n][c] = IF c = leaf THEN One ELSE Zero
                        /\ \A k \in 0..(tree_dim - 1) :
                            /\ out[b][n][k] = response[n][k][leaf]
                            /\ output.kind = "tensor" =>
                                   output.data[(b * num_trees + n) * tree_dim + k]
                                       = response[n][k][leaf]

\* forward routed a saturated row of a depth-2 tree to a leaf whose two bits
\* differ
C8_Witness ==
    /\ Called2D /\ Assigned /\ depth = 2 /\ output.kind = "tensor"
    /\ LET fv == Eval(feature_values(view2d(input)))
       IN  \E b \in 0..(Rows - 1), n \in 0..(num_trees - 1) :
               /\ Saturated(fv, b, n)
               /\ HardLeaf(fv, b, n, 0) \in {1, 2}

====
